---- MODULE Spec2Model ----
(***************************************************************************)
(* TSLA dashboard (src/app.py): the Row Parser (load_data / parse_list),   *)
(* the Series Builder (prepare_chart_data), the credential check and the   *)
(* model call of gemini_chat, and the per-session chat transcript kept by  *)
(* main.                                                                   *)
(*                                                                         *)
(* Two specifications share the variables:                                 *)
(*   Spec      the chart path: a table as read_csv returns it, load_data,  *)
(*             prepare_chart_data;                                         *)
(*   SpecChat  renders of main by several sessions, with the call to the   *)
(*             language model in flight between two steps.                 *)
(***************************************************************************)
EXTENDS Integers, Sequences, FiniteSets, TLC

VARIABLES
    csv,        \* the table pd.read_csv returns: a sequence of rows
    df,         \* the table after load_data (Support/Resistance parsed)
    chart,      \* what prepare_chart_data returned, or the exception it raised
    pc,         \* chart path: "start" | "loaded" | "done" | "raised"
    secrets,    \* st.secrets, as far as GEMINI_API_KEY goes
    env,        \* os.environ, as far as GEMINI_API_KEY goes
    sess,       \* per session: st.session_state and the position of its render
    genai       \* the language-model collaborator: configured key, calls made

vars == <<csv, df, chart, pc, secrets, env, sess, genai>>

chartVars == <<csv, df, chart, pc>>
chatVars == <<secrets, env, sess, genai>>

----------------------------------------------------------------------------
(* Bounds *)

MaxRows == 2
MaxTurns == 2

----------------------------------------------------------------------------
(* Python values.  Every value is a record of the same shape, so that any  *)
(* two values can be compared:                                             *)
(*   t  the type: "list" "tuple" "dict" "set" "int" "str" "None"           *)
(*   n  the number of an int                                               *)
(*   s  the text of a str (here of length 0 or 1)                          *)
(*   e  the elements of a list/tuple/set, the keys of a dict               *)

PyNone == [t |-> "None", n |-> 0, s |-> "", e |-> <<>>]
PyInt(k) == [t |-> "int", n |-> k, s |-> "", e |-> <<>>]
PyStr(x) == [t |-> "str", n |-> 0, s |-> x, e |-> <<>>]
PyList(xs) == [t |-> "list", n |-> 0, s |-> "", e |-> xs]
PyTuple(xs) == [t |-> "tuple", n |-> 0, s |-> "", e |-> xs]
PyDict(ks) == [t |-> "dict", n |-> 0, s |-> "", e |-> ks]
PySet(xs) == [t |-> "set", n |-> 0, s |-> "", e |-> xs]

Returned(v) == [ok |-> TRUE, val |-> v, exc |-> ""]
Raised(x) == [ok |-> FALSE, val |-> PyNone, exc |-> x]

----------------------------------------------------------------------------
(* The text of a cell is a sequence of tokens.  Numerals and string        *)
(* literals are single tokens; literals are flat (no literal inside a      *)
(* literal).                                                               *)

Numerals == {"0", "5", "90", "95", "110", "115"}
StrLiterals == {"''", "'a'", "'b'"}

\* int(): the number a numeral denotes
NumeralValue(tok) ==
    CASE tok = "0" -> 0
      [] tok = "5" -> 5
      [] tok = "90" -> 90
      [] tok = "95" -> 95
      [] tok = "110" -> 110
      [] tok = "115" -> 115

\* the text between the quotes of a string literal
StrLiteralValue(tok) ==
    CASE tok = "''" -> ""
      [] tok = "'a'" -> "a"
      [] tok = "'b'" -> "b"

\* ord() of a one-character string
Ord(x) == CASE x = "a" -> 97 [] x = "b" -> 98

\* x < y on strings of length 0 or 1
StrLess(x, y) == x # y /\ (x = "" \/ (y # "" /\ Ord(x) < Ord(y)))

Punctuation == {"[", "]", "(", ")", "{", "}", ",", ":"}

\* ast.literal_eval of a one-token expression: a constant, a name (which
\* literal_eval refuses with ValueError) or a lone punctuation mark (which
\* the parser refuses with SyntaxError)
EvalAtom(tok) ==
    IF tok \in Numerals THEN Returned(PyInt(NumeralValue(tok)))
    ELSE IF tok \in StrLiterals THEN Returned(PyStr(StrLiteralValue(tok)))
    ELSE IF tok \in Punctuation THEN Raised("SyntaxError")
    ELSE Raised("ValueError")

\* the elements of a comma-separated run of tokens (odd positions)
Atoms(inner) == [i \in 1..((Len(inner) + 1) \div 2) |-> inner[2 * i - 1]]

\* "a, b, c" with an optional trailing comma: what the parser accepts between
\* the brackets of a flat display
ItemsSyntax(inner) ==
    /\ Len(inner) >= 1
    /\ \A i \in 1..Len(inner) :
          IF i % 2 = 1 THEN inner[i] \notin Punctuation ELSE inner[i] = ","

\* "k: v, k: v" with an optional trailing comma
PairsSyntax(inner) ==
    /\ Len(inner) >= 3
    /\ Len(inner) % 4 \in {0, 3}
    /\ \A i \in 1..Len(inner) :
          CASE i % 4 = 1 -> inner[i] \notin Punctuation
            [] i % 4 = 2 -> inner[i] = ":"
            [] i % 4 = 3 -> inner[i] \notin Punctuation
            [] i % 4 = 0 -> inner[i] = ","

\* the keys of "k: v, k: v", in order
PairKeys(inner) == [i \in 1..((Len(inner) + 1) \div 4) |-> inner[4 * i - 3]]

\* the first occurrence of every element, in order (set and dict-key semantics)
RECURSIVE Dedupe(_)
Dedupe(xs) ==
    IF xs = <<>> THEN <<>>
    ELSE LET front == Dedupe(SubSeq(xs, 1, Len(xs) - 1))
             last == xs[Len(xs)]
         IN IF \E i \in 1..Len(front) : front[i] = last THEN front
            ELSE Append(front, last)

\* _convert of every element; a name among them is a malformed node
ConvertAll(toks, type) ==
    IF \E i \in 1..Len(toks) : ~EvalAtom(toks[i]).ok THEN Raised("ValueError")
    ELSE LET xs == [i \in 1..Len(toks) |-> EvalAtom(toks[i]).val]
         IN Returned(CASE type = "list" -> PyList(xs)
                       [] type = "tuple" -> PyTuple(xs)
                       [] type = "set" -> PySet(Dedupe(xs))
                       [] type = "dict" -> PyDict(Dedupe(xs)))

\* ast.literal_eval(text) for a str: ast.parse (SyntaxError) and then _convert
\* (ValueError on anything that is not a literal)
literal_eval(text) ==
    LET n == Len(text)
        inner == SubSeq(text, 2, n - 1)
    IN IF n = 0 THEN Raised("SyntaxError")
       ELSE IF n = 1 THEN EvalAtom(text[1])
       ELSE IF text[1] = "[" /\ text[n] = "]" THEN
            IF inner = <<>> THEN Returned(PyList(<<>>))
            ELSE IF ItemsSyntax(inner) THEN ConvertAll(Atoms(inner), "list")
            ELSE Raised("SyntaxError")
       ELSE IF text[1] = "(" /\ text[n] = ")" THEN
            IF inner = <<>> THEN Returned(PyTuple(<<>>))
            ELSE IF ~ItemsSyntax(inner) THEN Raised("SyntaxError")
            ELSE IF Len(inner) = 1 THEN EvalAtom(inner[1])
            ELSE ConvertAll(Atoms(inner), "tuple")
       ELSE IF text[1] = "{" /\ text[n] = "}" THEN
            IF inner = <<>> THEN Returned(PyDict(<<>>))
            ELSE IF ItemsSyntax(inner) THEN ConvertAll(Atoms(inner), "set")
            ELSE IF PairsSyntax(inner) THEN
                 IF \E i \in 1..Len(inner) :
                        i % 2 = 1 /\ ~EvalAtom(inner[i]).ok
                 THEN Raised("ValueError")
                 ELSE ConvertAll(PairKeys(inner), "dict")
            ELSE Raised("SyntaxError")
       ELSE Raised("SyntaxError")

----------------------------------------------------------------------------
(* Cells.  A cell of the table read_csv returns is NaN (an empty field), a *)
(* str (the field's text, in a column of dtype object) or a number (a      *)
(* column every field of which is numeric).                                *)

NaN == [kind |-> "nan", text |-> <<>>, str |-> ""]
TextCell(toks) == [kind |-> "str", text |-> toks, str |-> ""]
NumCell == [kind |-> "num", text |-> <<>>, str |-> ""]
\* a cell of the direction column: its text is kept whole
StrCell(x) == [kind |-> "str", text |-> <<>>, str |-> x]

\* pd.notnull(val)
NotNull(val) == val.kind # "nan"

\* val != ''
NotEmptyStr(val) == ~(val.kind = "str" /\ val.text = <<>>)

\* ast.literal_eval(val): a val that is no str (and no AST node) is a
\* malformed node
literal_eval_val(val) ==
    IF val.kind = "str" THEN literal_eval(val.text) ELSE Raised("ValueError")

\* the exceptions literal_eval can raise are all subclasses of Exception
IsException(exc) ==
    exc \in {"SyntaxError", "ValueError", "TypeError", "MemoryError",
              "RecursionError"}

\* a handler that names the parser's error only
parse_list_catching_syntax_only(val) ==
    LET r == IF NotNull(val) /\ NotEmptyStr(val) THEN literal_eval_val(val)
             ELSE Returned(PyList(<<>>))
    IN IF r.ok THEN r
       ELSE IF r.exc = "SyntaxError" THEN Returned(PyList(<<>>))
       ELSE r

\* load_data.parse_list
parse_list(val) ==
    LET r == IF NotNull(val) /\ NotEmptyStr(val) THEN literal_eval_val(val)
             ELSE Returned(PyList(<<>>))
    IN IF r.ok THEN r
       ELSE IF IsException(r.exc) THEN Returned(PyList(<<>>))
       ELSE r

----------------------------------------------------------------------------
(* Python built-ins used by prepare_chart_data *)

\* bool(v), as in "... if row['Support'] else None"
Truthy(v) ==
    CASE v.t \in {"list", "tuple", "dict", "set"} -> v.e # <<>>
      [] v.t = "int" -> v.n # 0
      [] v.t = "str" -> v.s # ""
      [] v.t = "None" -> FALSE

Iterable(v) == v.t \in {"list", "tuple", "dict", "set", "str"}

\* iter(v): a str yields its characters
Iter(v) == IF v.t = "str" THEN (IF v.s = "" THEN <<>> ELSE <<PyStr(v.s)>>) ELSE v.e

\* a < b is defined between two ints and between two strs
Comparable(a, b) == a.t = b.t /\ a.t \in {"int", "str"}
Less(a, b) == IF a.t = "int" THEN a.n < b.n ELSE StrLess(a.s, b.s)

\* min/max keep the first extreme item; an item that does not compare with
\* the current one raises TypeError
RECURSIVE Reduce(_, _, _, _)
Reduce(items, i, cur, isMin) ==
    IF i > Len(items) THEN Returned(cur)
    ELSE IF ~Comparable(items[i], cur) THEN Raised("TypeError")
    ELSE Reduce(items, i + 1,
                IF (isMin /\ Less(items[i], cur)) \/ (~isMin /\ Less(cur, items[i]))
                THEN items[i] ELSE cur,
                isMin)

\* min(v)
PyMin(v) ==
    IF ~Iterable(v) THEN Raised("TypeError")
    ELSE IF Iter(v) = <<>> THEN Raised("ValueError")
    ELSE Reduce(Iter(v), 2, Iter(v)[1], TRUE)

\* max(v)
PyMax(v) ==
    IF ~Iterable(v) THEN Raised("TypeError")
    ELSE IF Iter(v) = <<>> THEN Raised("ValueError")
    ELSE Reduce(Iter(v), 2, Iter(v)[1], FALSE)

----------------------------------------------------------------------------
(* load_data *)

\* df[col].apply(parse_list) on every row, for Support and for Resistance
load_data(table) ==
    LET s == [i \in 1..Len(table) |-> parse_list(table[i].Support)]
        r == [i \in 1..Len(table) |-> parse_list(table[i].Resistance)]
        bad == {i \in 1..Len(table) : ~s[i].ok \/ ~r[i].ok}
    IN IF bad # {} THEN
            [ok |-> FALSE, val |-> <<>>,
             exc |-> LET i == CHOOSE j \in bad : \A k \in bad : j <= k
                     IN IF ~s[i].ok THEN s[i].exc ELSE r[i].exc]
       ELSE [ok |-> TRUE,
             val |-> [i \in 1..Len(table) |->
                        [table[i] EXCEPT !.Support = s[i].val,
                                         !.Resistance = r[i].val]],
             exc |-> ""]

----------------------------------------------------------------------------
(* prepare_chart_data *)

Green == "rgba(0,255,0,0.2)"
Red == "rgba(255,0,0,0.2)"

Candle(row) ==
    Returned([time |-> row.timestamp, open |-> row.open, high |-> row.high,
              low |-> row.low, close |-> row.close])

\* a comparison that ignores case
MarkerIgnoringCase(row) ==
    Returned(
      IF row.direction.kind = "str" /\ row.direction.str \in {"LONG", "long"} THEN
        [time |-> row.timestamp, position |-> "belowBar", color |-> "green",
         shape |-> "arrowUp", text |-> "LONG"]
      ELSE IF row.direction.kind = "str" /\ row.direction.str \in {"SHORT", "short"} THEN
        [time |-> row.timestamp, position |-> "aboveBar", color |-> "red",
         shape |-> "arrowDown", text |-> "SHORT"]
      ELSE
        [time |-> row.timestamp, position |-> "aboveBar", color |-> "yellow",
         shape |-> "circle", text |-> "NONE"])

\* the if / elif / else on row['direction']; NaN == 'LONG' is False
Marker(row) ==
    Returned(
      IF row.direction.kind = "str" /\ row.direction.str = "LONG" THEN
        [time |-> row.timestamp, position |-> "belowBar", color |-> "green",
         shape |-> "arrowUp", text |-> "LONG"]
      ELSE IF row.direction.kind = "str" /\ row.direction.str = "SHORT" THEN
        [time |-> row.timestamp, position |-> "aboveBar", color |-> "red",
         shape |-> "arrowDown", text |-> "SHORT"]
      ELSE
        [time |-> row.timestamp, position |-> "aboveBar", color |-> "yellow",
         shape |-> "circle", text |-> "NONE"])

\* one point of a band: "reduce(levels) if levels else None"
BandPoint(time, levels, isMin, color) ==
    IF Truthy(levels) THEN
        LET m == IF isMin THEN PyMin(levels) ELSE PyMax(levels)
        IN IF m.ok THEN Returned([time |-> time, value |-> m.val, color |-> color])
           ELSE m
    ELSE Returned([time |-> time, value |-> PyNone, color |-> color])

\* a band whose empty list gives 0
SupportPointZero(row) ==
    IF Truthy(row.Support) THEN BandPoint(row.timestamp, row.Support, TRUE, Green)
    ELSE Returned([time |-> row.timestamp, value |-> PyInt(0), color |-> Green])

SupportPoint(row) == BandPoint(row.timestamp, row.Support, TRUE, Green)
SupportUpperPoint(row) == BandPoint(row.timestamp, row.Support, FALSE, Green)
ResistancePoint(row) == BandPoint(row.timestamp, row.Resistance, TRUE, Red)

\* the upper resistance line read from the other column
ResistanceUpperFromSupport(row) == BandPoint(row.timestamp, row.Support, TRUE, Red)

ResistanceUpperPoint(row) == BandPoint(row.timestamp, row.Resistance, FALSE, Red)

\* [point(row) for _, row in df.iterrows()]: the first row that raises ends it
Series(pts) ==
    LET bad == {i \in 1..Len(pts) : ~pts[i].ok}
    IN IF bad # {} THEN
            [ok |-> FALSE, val |-> <<>>,
             exc |-> pts[CHOOSE j \in bad : \A k \in bad : j <= k].exc]
       ELSE [ok |-> TRUE, val |-> [i \in 1..Len(pts) |-> pts[i].val], exc |-> ""]

NoChart ==
    [ok |-> FALSE, exc |-> "", candles |-> <<>>, markers |-> <<>>,
     support_band |-> <<>>, support_band_upper |-> <<>>,
     resistance_band |-> <<>>, resistance_band_upper |-> <<>>]

\* a marker list that leaves out the rows without a direction
markers_skipping_none(d) ==
    LET RECURSIVE Keep(_)
        Keep(i) == IF i = 0 THEN <<>>
                   ELSE IF Marker(d[i]).val.text = "NONE" THEN Keep(i - 1)
                   ELSE Append(Keep(i - 1), Marker(d[i]).val)
    IN [ok |-> TRUE, val |-> Keep(Len(d)), exc |-> ""]

markers_of(d) == Series([i \in 1..Len(d) |-> Marker(d[i])])

\* the six comprehensions run in order; the first to raise ends the call
prepare_chart_data(d) ==
    LET c == Series([i \in 1..Len(d) |-> Candle(d[i])])
        m == markers_of(d)
        sl == Series([i \in 1..Len(d) |-> SupportPoint(d[i])])
        su == Series([i \in 1..Len(d) |-> SupportUpperPoint(d[i])])
        rl == Series([i \in 1..Len(d) |-> ResistancePoint(d[i])])
        ru == Series([i \in 1..Len(d) |-> ResistanceUpperPoint(d[i])])
    IN IF ~c.ok THEN [NoChart EXCEPT !.exc = c.exc]
       ELSE IF ~m.ok THEN [NoChart EXCEPT !.exc = m.exc]
       ELSE IF ~sl.ok THEN [NoChart EXCEPT !.exc = sl.exc]
       ELSE IF ~su.ok THEN [NoChart EXCEPT !.exc = su.exc]
       ELSE IF ~rl.ok THEN [NoChart EXCEPT !.exc = rl.exc]
       ELSE IF ~ru.ok THEN [NoChart EXCEPT !.exc = ru.exc]
       ELSE [ok |-> TRUE, exc |-> "", candles |-> c.val, markers |-> m.val,
             support_band |-> sl.val, support_band_upper |-> su.val,
             resistance_band |-> rl.val, resistance_band_upper |-> ru.val]

----------------------------------------------------------------------------
(* gemini_chat and main *)

FallbackMessage ==
    "Gemini API key not found. Please set it in Streamlit secrets or as an environment variable."

Absent == [present |-> FALSE, value |-> ""]
Stored(v) == [present |-> TRUE, value |-> v]

\* st.secrets["GEMINI_API_KEY"] if "GEMINI_API_KEY" in st.secrets
\* else os.getenv("GEMINI_API_KEY"); none stands for None
api_key ==
    IF secrets.present THEN [none |-> FALSE, value |-> secrets.value]
    ELSE IF env.present THEN [none |-> FALSE, value |-> env.value]
    ELSE [none |-> TRUE, value |-> ""]

\* "if api_key is None"
KeyIsNone(k) == k.none

\* "if not api_key"
KeyMissing(k) == k.none \/ k.value = ""

\* gemini_chat up to the call of generate_content:
\*   "return"  the fallback message is returned, nothing was configured
\*   "raise"   df.iloc[0] raised IndexError on a table without rows
\*   "call"    generate_content(prompt) is called
gemini_chat(question, d) ==
    IF KeyMissing(api_key) THEN
        [kind |-> "return", text |-> FallbackMessage, configured |-> "", exc |-> ""]
    ELSE IF d = <<>> THEN
        [kind |-> "raise", text |-> "", configured |-> api_key.value, exc |-> "IndexError"]
    ELSE [kind |-> "call", text |-> "", configured |-> api_key.value, exc |-> ""]

\* the collaborator before genai.configure and before any generate_content
NoGenai == [configured |-> FALSE, key |-> "", called |-> FALSE]

FreshSession ==
    [has_history |-> FALSE, chat_history |-> <<>>, at |-> "idle",
     user_input |-> "", ask |-> FALSE, outcome |-> ""]

\* an initialisation that runs on every render
ResetHistory(st) == [st EXCEPT !.has_history = TRUE, !.chat_history = <<>>]

\* if 'chat_history' not in st.session_state: st.session_state.chat_history = []
InitHistory(st) ==
    IF st.has_history THEN st
    ELSE [st EXCEPT !.has_history = TRUE, !.chat_history = <<>>]

\* st.session_state.chat_history.append((user_input, answer))
AppendTurn(st, q, a) ==
    [st EXCEPT !.chat_history = Append(@, [q |-> q, a |-> a])]

----------------------------------------------------------------------------
(* Inputs *)

Row(t, d, s, r) ==
    [timestamp |-> t, open |-> 100 + t, high |-> 105 + t, low |-> 99 - t,
     close |-> 102 + t, volume |-> 1000 * t, direction |-> d,
     Support |-> s, Resistance |-> r]

Timestamps == {1, 2}

Directions ==
    {StrCell("LONG"), StrCell("SHORT"), StrCell("long"), StrCell("HOLD"),
     StrCell(""), NaN}

\* texts of list literals, with the list each one writes down
ListLiteral(xs) ==
    LET RECURSIVE Body(_)
        Body(i) == IF i = 0 THEN <<>>
                   ELSE IF i = 1 THEN <<xs[1]>>
                   ELSE Body(i - 1) \o <<",", xs[i]>>
    IN <<"[">> \o Body(Len(xs)) \o <<"]">>

SampleLists ==
    {<<>>, <<"0">>, <<"90", "95">>, <<"95", "90">>, <<"110", "115">>,
     <<"115", "5", "110">>}

ListCells == {TextCell(ListLiteral(xs)) : xs \in SampleLists}

\* texts that decode to something that is not a list of numbers
OddCells ==
    {TextCell(<<"5">>), TextCell(<<"0">>), TextCell(<<"'a'">>),
     TextCell(<<"(", "90", ",", "95", ")">>), TextCell(<<"{", "}">>),
     TextCell(<<"{", "90", ":", "95", "}">>),
     TextCell(<<"[", "'a'", ",", "90", "]">>), TextCell(<<"[", "'b'", ",", "'a'", "]">>)}

\* texts that do not decode, the empty text, and cells that hold no text
BadCells ==
    {TextCell(<<"[", "90", ",">>), TextCell(<<"abc">>),
     TextCell(<<"[", "abc", "]">>), TextCell(<<"90", "95">>)}
EmptyCells == {TextCell(<<>>), NaN, NumCell}

Cells == ListCells \cup OddCells \cup BadCells \cup EmptyCells

BaseSupport == TextCell(ListLiteral(<<"90", "95">>))
BaseResistance == TextCell(ListLiteral(<<"110", "115">>))

\* the rows tables are made of: every direction and every timestamp on the
\* base levels, and every cell in each of the two columns
RowInputs ==
    {Row(1, d, BaseSupport, BaseResistance) : d \in Directions}
    \cup {Row(t, NaN, BaseSupport, BaseResistance) : t \in Timestamps}
    \cup {Row(2, StrCell("SHORT"), c, BaseResistance) : c \in Cells}
    \cup {Row(1, StrCell("LONG"), BaseSupport, c) : c \in Cells}

Tables == UNION {[1..n -> RowInputs] : n \in 0..MaxRows}

\* the file the chat renders read: no rows, a well-formed row, a row whose
\* Support is a bare number
ChatTables ==
    {<<>>, <<Row(1, StrCell("LONG"), BaseSupport, BaseResistance)>>,
     <<Row(1, StrCell("LONG"), TextCell(<<"5">>), BaseResistance)>>}

KeyStores == {Absent, Stored(""), Stored("key")}
Sessions == {"s1", "s2"}
Questions == {"", "q1", "q2"}
ModelTexts == {"a1"}
ModelErrors == {"APIError"}

----------------------------------------------------------------------------
(* The chart path *)

InitChat ==
    /\ secrets = Absent
    /\ env = Absent
    /\ sess = [s \in Sessions |-> FreshSession]
    /\ genai = NoGenai

InitChartVars ==
    /\ df = <<>>
    /\ chart = NoChart
    /\ pc = "start"

Init ==
    /\ csv \in Tables
    /\ InitChartVars
    /\ InitChat

\* df = load_data(...)
LoadDataStep ==
    /\ pc = "start"
    /\ LET r == load_data(csv)
       IN /\ df' = r.val
          /\ pc' = IF r.ok THEN "loaded" ELSE "load_raised"
          /\ chart' = [chart EXCEPT !.exc = r.exc]
    /\ UNCHANGED <<csv, chatVars>>

\* candles, markers, ... = prepare_chart_data(df)
PrepareChartDataStep ==
    /\ pc = "loaded"
    /\ chart' = prepare_chart_data(df)
    /\ pc' = IF chart'.ok THEN "done" ELSE "raised"
    /\ UNCHANGED <<csv, df, chatVars>>

Next == LoadDataStep \/ PrepareChartDataStep

Spec == Init /\ [][Next]_vars

----------------------------------------------------------------------------
(* Renders of main, one session at a time per step *)

InitChatSpec ==
    /\ csv \in ChatTables
    /\ InitChartVars
    /\ secrets \in KeyStores
    /\ env \in KeyStores
    /\ sess = [s \in Sessions |-> FreshSession]
    /\ genai = NoGenai

\* one run of main for session s, with the text of the input box and whether
\* Ask was pressed, up to its end or to the call of generate_content
main(s, user_input, pressed) ==
    /\ sess[s].at = "idle"
    /\ (pressed /\ user_input # "") => Len(sess[s].chat_history) < MaxTurns
    /\ df' = load_data(csv).val
    /\ chart' = prepare_chart_data(df')
    /\ LET widgets == [sess[s] EXCEPT !.user_input = user_input, !.ask = pressed]
           st == InitHistory(widgets)
           g == gemini_chat(user_input, df')
           configure == [genai EXCEPT !.configured = TRUE, !.key = g.configured]
       IN IF ~chart'.ok THEN
               \* tab1 raised: the script ends before tab2
               /\ sess' = [sess EXCEPT ![s] = [widgets EXCEPT !.outcome = chart'.exc]]
               /\ UNCHANGED genai
          ELSE IF ~(pressed /\ user_input # "") THEN
               /\ sess' = [sess EXCEPT ![s] = [st EXCEPT !.outcome = "ok"]]
               /\ UNCHANGED genai
          ELSE IF g.kind = "return" THEN
               /\ sess' = [sess EXCEPT ![s] =
                              [AppendTurn(st, user_input, g.text) EXCEPT !.outcome = "ok"]]
               /\ UNCHANGED genai
          ELSE IF g.kind = "raise" THEN
               /\ sess' = [sess EXCEPT ![s] = [st EXCEPT !.outcome = g.exc]]
               /\ genai' = configure
          ELSE /\ sess' = [sess EXCEPT ![s] = [st EXCEPT !.at = "calling", !.outcome = ""]]
               /\ genai' = configure
    /\ UNCHANGED <<csv, pc, secrets, env>>

\* generate_content returns and response.text is read: gemini_chat returns it,
\* main appends the pair and the render ends
GenerateReturns(s, text) ==
    /\ sess[s].at = "calling"
    /\ sess' = [sess EXCEPT ![s] =
                   [AppendTurn(sess[s], sess[s].user_input, text)
                        EXCEPT !.at = "idle", !.outcome = "ok"]]
    /\ genai' = [genai EXCEPT !.called = TRUE]
    /\ UNCHANGED <<chartVars, secrets, env>>

\* generate_content (or reading response.text) raises: nothing in gemini_chat
\* or main catches it, the render ends with the exception
GenerateRaises(s, exc) ==
    /\ sess[s].at = "calling"
    /\ sess' = [sess EXCEPT ![s].at = "idle", ![s].outcome = exc]
    /\ genai' = [genai EXCEPT !.called = TRUE]
    /\ UNCHANGED <<chartVars, secrets, env>>

NextChat ==
    \/ \E s \in Sessions, q \in Questions, pressed \in BOOLEAN : main(s, q, pressed)
    \/ \E s \in Sessions, text \in ModelTexts : GenerateReturns(s, text)
    \/ \E s \in Sessions, exc \in ModelErrors : GenerateRaises(s, exc)

SpecChat == InitChatSpec /\ [][NextChat]_vars

----------------------------------------------------------------------------
(* Properties of the chart path (Spec) *)

\* a list all of whose elements are numbers
IsNumList(v) == v.t = "list" /\ \A k \in 1..Len(v.e) : v.e[k].t = "int"

WellTyped(d) ==
    \A i \in 1..Len(d) : IsNumList(d[i].Support) /\ IsNumList(d[i].Resistance)

SixSeries ==
    <<chart.candles, chart.markers, chart.support_band, chart.support_band_upper,
      chart.resistance_band, chart.resistance_band_upper>>

\* C1: whenever prepare_chart_data returns, each of the six sequences has one
\* entry per row of its input table and entry i carries the timestamp of row
\* i (nothing dropped, duplicated, reordered or deduplicated); and on every
\* table whose level cells are lists of numbers it does return.
C1_SeriesAligned ==
    /\ pc = "done" =>
          \A k \in 1..6 :
             /\ Len(SixSeries[k]) = Len(df)
             /\ \A i \in 1..Len(df) : SixSeries[k][i].time = df[i].timestamp
    /\ (pc \in {"done", "raised"} /\ WellTyped(df)) => pc = "done"

\* two rows with the timestamps out of order, one of them without a direction
C1_Witness ==
    /\ pc = "done"
    /\ Len(df) = 2
    /\ df[1].timestamp > df[2].timestamp
    /\ df[1].direction = NaN
    /\ Len(chart.markers) = 2

\* C2: one marker per row; direction exactly "LONG" gives (belowBar, green,
\* arrowUp, "LONG"), exactly "SHORT" gives (aboveBar, red, arrowDown,
\* "SHORT"), every other value (empty, missing, "long", "HOLD") gives
\* (aboveBar, yellow, circle, "NONE").
C2_MarkerMapping ==
    pc = "done" =>
       /\ Len(chart.markers) = Len(df)
       /\ \A i \in 1..Len(df) :
             LET m == chart.markers[i]
                 style == <<m.position, m.color, m.shape, m.text>>
                 d == df[i].direction
             IN /\ m.time = df[i].timestamp
                /\ d = StrCell("LONG") => style = <<"belowBar", "green", "arrowUp", "LONG">>
                /\ d = StrCell("SHORT") => style = <<"aboveBar", "red", "arrowDown", "SHORT">>
                /\ d \notin {StrCell("LONG"), StrCell("SHORT")}
                      => style = <<"aboveBar", "yellow", "circle", "NONE">>

\* a table with a lowercase "long" and an exact "LONG"
C2_Witness ==
    /\ pc = "done"
    /\ \E i, j \in 1..Len(df) :
          /\ df[i].direction = StrCell("long")
          /\ df[j].direction = StrCell("LONG")
          /\ chart.markers[i].text = "NONE"
          /\ chart.markers[j].text = "LONG"

\* v is the least (greatest) number of the list
IsLeastOf(v, levels) ==
    /\ v.t = "int"
    /\ \E k \in 1..Len(levels.e) : levels.e[k] = v
    /\ \A k \in 1..Len(levels.e) : v.n <= levels.e[k].n
IsGreatestOf(v, levels) ==
    /\ v.t = "int"
    /\ \E k \in 1..Len(levels.e) : levels.e[k] = v
    /\ \A k \in 1..Len(levels.e) : v.n >= levels.e[k].n

BandOf(lower, upper, levels, time) ==
    /\ lower.time = time
    /\ upper.time = time
    /\ levels.e # <<>> => IsLeastOf(lower.value, levels) /\ IsGreatestOf(upper.value, levels)
    /\ levels.e = <<>> => lower.value = PyNone /\ upper.value = PyNone

\* C3: for every row whose level list is a list of numbers, the lower point is
\* the list's minimum and the upper point its maximum when the list is not
\* empty (a list holding only 0 included); when it is empty the value is None,
\* not 0, and the point is still there at the row's timestamp.
C3_BandValues ==
    pc = "done" =>
       \A i \in 1..Len(df) :
          /\ IsNumList(df[i].Support) =>
                BandOf(chart.support_band[i], chart.support_band_upper[i],
                       df[i].Support, df[i].timestamp)
          /\ IsNumList(df[i].Resistance) =>
                BandOf(chart.resistance_band[i], chart.resistance_band_upper[i],
                       df[i].Resistance, df[i].timestamp)

\* a row whose Support is [0] and a row whose Support is empty
C3_Witness ==
    /\ pc = "done"
    /\ \E i, j \in 1..Len(df) :
          /\ df[i].Support = PyList(<<PyInt(0)>>)
          /\ chart.support_band[i].value = PyInt(0)
          /\ df[j].Support = PyList(<<>>)
          /\ chart.support_band[j].value = PyNone

\* the list of numbers a list of numerals writes down
NumbersOf(xs) == PyList([k \in 1..Len(xs) |-> PyInt(NumeralValue(xs[k]))])

ParsedAs(cell, v) ==
    /\ \A xs \in SampleLists : cell = TextCell(ListLiteral(xs)) => v = NumbersOf(xs)
    /\ cell \in BadCells \cup EmptyCells => v = PyList(<<>>)

\* C4: load_data never raises; the text of a list literal parses to that
\* list, elements in the same order; an empty string, a missing cell, a cell
\* that is no string and a text that does not decode parse to the empty list.
C4_LenientParse ==
    /\ pc # "load_raised"
    /\ pc # "start" =>
          /\ Len(df) = Len(csv)
          /\ \A i \in 1..Len(csv) :
                /\ ParsedAs(csv[i].Support, df[i].Support)
                /\ ParsedAs(csv[i].Resistance, df[i].Resistance)

\* a name (ValueError) in one row, an unsorted three-level list in another
C4_Witness ==
    /\ pc = "loaded"
    /\ \E i, j \in 1..Len(csv) :
          /\ csv[i].Support = TextCell(<<"abc">>)
          /\ df[i].Support = PyList(<<>>)
          /\ csv[j].Resistance = TextCell(ListLiteral(<<"115", "5", "110">>))
          /\ df[j].Resistance = PyList(<<PyInt(115), PyInt(5), PyInt(110)>>)

\* C6: after load_data every Support and Resistance cell holds a list of
\* numbers.
C6_ListsOfNumbers ==
    pc # "start" => WellTyped(df)

Present(p) == p.value # PyNone

\* a <= b between two band values
ValueLeq(a, b) ==
    /\ a.t = b.t
    /\ a.t \in {"int", "str"}
    /\ IF a.t = "int" THEN a.n <= b.n ELSE ~StrLess(b.s, a.s)

Ordered(lower, upper) ==
    /\ Present(lower) <=> Present(upper)
    /\ Present(lower) /\ Present(upper) => ValueLeq(lower.value, upper.value)

\* C8: for every row and each band, lower and upper are both present or both
\* absent, and when present lower <= upper.
C8_LowerLeqUpper ==
    pc = "done" =>
       \A i \in 1..Len(df) :
          /\ Ordered(chart.support_band[i], chart.support_band_upper[i])
          /\ Ordered(chart.resistance_band[i], chart.resistance_band_upper[i])

\* a row with two distinct levels in each band, and a row with an absent band
C8_Witness ==
    /\ pc = "done"
    /\ \E i, j \in 1..Len(df) :
          /\ chart.support_band[i].value.n < chart.support_band_upper[i].value.n
          /\ chart.resistance_band[i].value.n < chart.resistance_band_upper[i].value.n
          /\ ~Present(chart.resistance_band[j])
          /\ ~Present(chart.resistance_band_upper[j])

\* the cell's text decodes, and to something that is not a list
DecodesToNonList(cell) ==
    /\ cell.kind = "str"
    /\ cell.text # <<>>
    /\ literal_eval(cell.text).ok
    /\ literal_eval(cell.text).val.t # "list"

\* C9: prepare_chart_data(load_data(...)) returns for every table, and a cell
\* whose text decodes to a non-list value gives an absent value at its row.
C9_TotalOverParserOutput ==
    /\ pc # "raised"
    /\ pc = "done" =>
          \A i \in 1..Len(csv) :
             /\ DecodesToNonList(csv[i].Support) =>
                   ~Present(chart.support_band[i]) /\ ~Present(chart.support_band_upper[i])
             /\ DecodesToNonList(csv[i].Resistance) =>
                   ~Present(chart.resistance_band[i])
                   /\ ~Present(chart.resistance_band_upper[i])

----------------------------------------------------------------------------
(* Properties of the chat (SpecChat) *)

NoValue(store) == ~store.present \/ store.value = ""

\* GEMINI_API_KEY absent or empty in the secrets store and in the environment
NoCredential == NoValue(secrets) /\ NoValue(env)

\* C5: with no credential, gemini_chat returns the fallback message for every
\* question and table: every answer it gave is that literal, the collaborator
\* was neither configured nor called, and no call of gemini_chat raised.
C5_FallbackWithoutKey ==
    NoCredential =>
       /\ ~genai.configured
       /\ ~genai.called
       /\ \A s \in Sessions :
             /\ sess[s].at # "calling"
             /\ sess[s].outcome \notin {"IndexError"} \cup ModelErrors
             /\ \A k \in 1..Len(sess[s].chat_history) :
                   sess[s].chat_history[k].a = FallbackMessage

\* an empty key in the secrets store, a table without rows, a question asked
C5_Witness ==
    /\ secrets = Stored("")
    /\ env = Absent
    /\ csv = <<>>
    /\ \E s \in Sessions :
          /\ sess[s].ask
          /\ sess[s].user_input = "q1"
          /\ sess[s].outcome = "ok"
          /\ sess[s].chat_history = <<[q |-> "q1", a |-> FallbackMessage]>>

\* C7: a failing model call does not end the render with its exception.
C7_FailureRecovered ==
    \A s \in Sessions : sess[s].outcome \notin ModelErrors

IsPrefix(h, g) == Len(h) <= Len(g) /\ SubSeq(g, 1, Len(h)) = h

\* what one step does to the transcript of session s
TranscriptStep(s) ==
    LET h == sess[s].chat_history
        g == sess'[s].chat_history
        last == g[Len(g)]
        callCompleted ==
            sess[s].at = "calling" /\ sess'[s].at = "idle" /\ sess'[s].outcome = "ok"
    IN \* empty until initialised
       /\ ~sess[s].has_history => h = <<>>
       \* entries are never removed, reordered or modified
       /\ IsPrefix(h, g)
       /\ Len(g) <= Len(h) + 1
       \* a completed call appends the pair of its question
       /\ callCompleted => (Len(g) = Len(h) + 1 /\ last.q = sess[s].user_input)
       \* nothing else appends, except the fallback answer gemini_chat returns
       \* at once to a question that was asked
       /\ Len(g) = Len(h) + 1 =>
             /\ last.q # ""
             /\ sess'[s].ask
             /\ last.q = sess'[s].user_input
             /\ sess'[s].outcome = "ok"
             /\ \/ callCompleted /\ last.a \in ModelTexts
                \/ sess[s].at = "idle" /\ sess'[s].at = "idle" /\ last.a = FallbackMessage
             /\ \A t \in Sessions \ {s} : sess'[t] = sess[t]
       \* a render that ends with an exception appends nothing
       /\ sess'[s].outcome \notin {"ok", ""} => g = h

\* C10: every step keeps every session's transcript or appends exactly one
\* pair at its end, the latter only for a question that was asked and whose
\* answer gemini_chat returned, and never to another session's transcript.
C10_AppendOnly == [][\A s \in Sessions : TranscriptStep(s)]_vars

\* one session holds two answered questions in the order asked, the other one
C10_Witness ==
    /\ sess["s1"].chat_history = <<[q |-> "q2", a |-> "a1"], [q |-> "q1", a |-> "a1"]>>
    /\ sess["s2"].chat_history = <<[q |-> "q1", a |-> "a1"]>>
    /\ sess["s2"].outcome = "APIError"

====
